---- MODULE Spec2Model ----
(***************************************************************************)
(* Model of subnettoIp.py: IPGenerator (validate_subnet,                   *)
(* generate_random_ip, get_history, clear_history), copy_to_clipboard and  *)
(* the interactive loop of main.                                           *)
(*                                                                         *)
(* A Python str is a sequence of one-character strings.  An IPv4 address   *)
(* is the tuple of its four octets: the library computes on one 32-bit     *)
(* integer, which does not fit the model checker's integers, and masking   *)
(* the integer is masking each octet by the host bits that fall in it.     *)
(* The standard library (re, ipaddress, str methods) is modelled as        *)
(* CPython 3.11 behaves.                                                   *)
(***************************************************************************)
EXTENDS Integers, Sequences, FiniteSets, TLC

VARIABLES
    pc,        \* main: "awaiting" (blocked in input()) or "exited" (after break)
    history,   \* IPGenerator.history: sequence of <<subnet, ip>>
    op,        \* the operation that produced this state
    arg,       \* the string last passed to generate_random_ip
    res,       \* outcome of the last generate_random_ip call
    view,      \* what the caller holds from get_history: "none" or "self.history"
    out,       \* what the last loop iteration printed
    clip,      \* the clipboard's content
    issued     \* <<argument, returned address>> of the successful calls since
               \* construction or the last clear_history, in call order

vars == <<pc, history, op, arg, res, view, out, clip, issued>>

----------------------------------------------------------------------------
(* str and int *)

Digit == {"0", "1", "2", "3", "4", "5", "6", "7", "8", "9"}

DigitVal(c) ==
    CASE c = "0" -> 0 [] c = "1" -> 1 [] c = "2" -> 2 [] c = "3" -> 3
      [] c = "4" -> 4 [] c = "5" -> 5 [] c = "6" -> 6 [] c = "7" -> 7
      [] c = "8" -> 8 [] c = "9" -> 9

DigitChar(n) ==
    CASE n = 0 -> "0" [] n = 1 -> "1" [] n = 2 -> "2" [] n = 3 -> "3"
      [] n = 4 -> "4" [] n = 5 -> "5" [] n = 6 -> "6" [] n = 7 -> "7"
      [] n = 8 -> "8" [] n = 9 -> "9"

\* int(s, 10) for a non-empty string of ASCII digits
RECURSIVE int(_)
int(s) ==
    IF s = <<>> THEN 0
    ELSE int(SubSeq(s, 1, Len(s) - 1)) * 10 + DigitVal(s[Len(s)])

\* str(n) for a natural number
RECURSIVE str_int(_)
str_int(n) ==
    IF n < 10 THEN <<DigitChar(n)>>
    ELSE str_int(n \div 10) \o <<DigitChar(n % 10)>>

\* s.isascii() and s.isdigit(): non-empty, ASCII digits only
isdigit(s) == s # <<>> /\ \A i \in 1..Len(s) : s[i] \in Digit

\* s.split(sep) for a one-character separator
RECURSIVE split(_, _)
split(s, sep) ==
    IF \A i \in 1..Len(s) : s[i] # sep THEN <<s>>
    ELSE LET k == CHOOSE i \in 1..Len(s) :
                      s[i] = sep /\ \A j \in 1..(i - 1) : s[j] # sep
         IN  <<SubSeq(s, 1, k - 1)>> \o split(SubSeq(s, k + 1, Len(s)), sep)

Whitespace == {" ", "\t", "\n"}

\* s.strip()
RECURSIVE strip(_)
strip(s) ==
    IF s = <<>> THEN s
    ELSE IF s[1] \in Whitespace THEN strip(SubSeq(s, 2, Len(s)))
    ELSE IF s[Len(s)] \in Whitespace THEN strip(SubSeq(s, 1, Len(s) - 1))
    ELSE s

LowerChar(c) ==
    CASE c = "A" -> "a" [] c = "C" -> "c" [] c = "E" -> "e" [] c = "H" -> "h"
      [] c = "I" -> "i" [] c = "L" -> "l" [] c = "O" -> "o" [] c = "R" -> "r"
      [] c = "S" -> "s" [] c = "T" -> "t" [] c = "X" -> "x" [] c = "Y" -> "y"
      [] OTHER -> c

\* s.lower(), on the letters the inputs use
lower(s) == [i \in 1..Len(s) |-> LowerChar(s[i])]

----------------------------------------------------------------------------
(* re.match(r'^(\d{1,3}\.){3}\d{1,3}/\d{1,2}$', subnet) *)

DigitsAt(s, from, n) == \A i \in from..(from + n - 1) : s[i] \in Digit

\* '$' without re.MULTILINE matches at the end of the string and also just
\* before a newline that is the string's last character.
validate_subnet(subnet) ==
    \E a \in 1..3, b \in 1..3, c \in 1..3, d \in 1..3, e \in 1..2 :
        LET p1 == a + 1
            p2 == p1 + b + 1
            p3 == p2 + c + 1
            p4 == p3 + d + 1
            end == p4 + e
        IN  /\ Len(subnet) \in {end, end + 1}
            /\ Len(subnet) = end + 1 => subnet[end + 1] = "\n"
            /\ DigitsAt(subnet, 1, a) /\ subnet[p1] = "."
            /\ DigitsAt(subnet, p1 + 1, b) /\ subnet[p2] = "."
            /\ DigitsAt(subnet, p2 + 1, c) /\ subnet[p3] = "."
            /\ DigitsAt(subnet, p3 + 1, d) /\ subnet[p4] = "/"
            /\ DigitsAt(subnet, p4 + 1, e)

----------------------------------------------------------------------------
(* ipaddress.IPv4Network(subnet, strict=False) *)

RECURSIVE Pow2(_)
Pow2(n) == IF n = 0 THEN 1 ELSE 2 * Pow2(n - 1)

\* _parse_octet without its test of the value against 255
parse_octet_ok_unbounded(o) ==
    /\ isdigit(o)
    /\ Len(o) <= 3
    /\ ~(Len(o) > 1 /\ o[1] = "0")

\* IPv4Address._parse_octet: ASCII digits only, at most 3 of them, no leading
\* zero on a multi-digit octet, value at most 255
parse_octet_ok(o) ==
    /\ isdigit(o)
    /\ Len(o) <= 3
    /\ ~(Len(o) > 1 /\ o[1] = "0")
    /\ int(o) <= 255

\* IPv4Address(addr): exactly four octets, each accepted by _parse_octet
IPv4Address_ok(addr) ==
    LET octets == split(addr, ".")
    IN  Len(octets) = 4 /\ \A i \in 1..4 : parse_octet_ok(octets[i])

IPv4Address(addr) ==
    LET octets == split(addr, ".")
    IN  <<int(octets[1]), int(octets[2]), int(octets[3]), int(octets[4])>>

\* _make_netmask on a string: a prefix length is ASCII digits with value 0..32.
\* Any other mask is retried as a dotted-quad netmask, which needs three '.'
\* and so fails for every mask that has none.
prefix_ok(mask) ==
    /\ isdigit(mask)
    /\ int(mask) <= 32

\* number of host bits of a /p network that fall in octet i (1 = most significant)
HostBits(i, p) ==
    LET n == 8 * i - p IN IF n < 0 THEN 0 ELSE IF n > 8 THEN 8 ELSE n

\* int(address) & int(netmask), octet by octet
MaskOctet(o, i, p) == o - (o % Pow2(HostBits(i, p)))

network_address(a, p) ==
    <<MaskOctet(a[1], 1, p), MaskOctet(a[2], 2, p),
      MaskOctet(a[3], 3, p), MaskOctet(a[4], 4, p)>>

\* int(network_address) | int(hostmask), octet by octet
broadcast_address(n, p) ==
    <<n[1] + Pow2(HostBits(1, p)) - 1, n[2] + Pow2(HostBits(2, p)) - 1,
      n[3] + Pow2(HostBits(3, p)) - 1, n[4] + Pow2(HostBits(4, p)) - 1>>

\* The parsed network: ok = FALSE stands for the ValueError (AddressValueError
\* or NetmaskValueError) the constructor raises.  strict=False: host bits set
\* in the address are masked off, never rejected.
IPv4Network(subnet) ==
    LET parts == split(subnet, "/")
    IN  IF Len(parts) # 2 \/ ~IPv4Address_ok(parts[1]) \/ ~prefix_ok(parts[2])
        THEN [ok |-> FALSE, network_address |-> <<0, 0, 0, 0>>, prefixlen |-> 0]
        ELSE [ok |-> TRUE,
              network_address |-> network_address(IPv4Address(parts[1]), int(parts[2])),
              prefixlen |-> int(parts[2])]

\* every address of the network, network_address .. broadcast_address
Addresses(network) ==
    LET n == network.network_address
        b == broadcast_address(n, network.prefixlen)
    IN  {<<w, x, y, z>> : w \in n[1]..b[1], x \in n[2]..b[2],
                          y \in n[3]..b[3], z \in n[4]..b[4]}

\* list(network) in place of list(network.hosts()): no address left out
hosts_with_ends(network) == Addresses(network)

\* IPv4Network.hosts(): /32 gives the single address, /31 gives both
\* addresses, anything shorter gives network_address+1 .. broadcast_address-1
hosts(network) ==
    LET n == network.network_address
        b == broadcast_address(n, network.prefixlen)
    IN  IF network.prefixlen = 32 THEN {n}
        ELSE IF network.prefixlen = 31 THEN {n, b}
        ELSE Addresses(network) \ {n, b}

\* str(IPv4Address)
str_ip(a) ==
    str_int(a[1]) \o <<".">> \o str_int(a[2]) \o <<".">> \o
    str_int(a[3]) \o <<".">> \o str_int(a[4])

----------------------------------------------------------------------------
(* IPGenerator *)

Outcome(kind, ip) == [kind |-> kind, ip |-> ip]

\* The possible outcomes of generate_random_ip(subnet): the address returned
\* (kind "ok", one outcome per element random.choice may pick) or the
\* SubnetError raised: "InvalidFormat" is the error of line 55, "NoUsableHosts"
\* the one of line 62, "InvalidSubnet" the one of line 69.
generate_random_ip(subnet) ==
    IF ~validate_subnet(subnet) THEN {Outcome("InvalidFormat", <<>>)}
    ELSE LET network == IPv4Network(subnet)
         IN  IF ~network.ok THEN {Outcome("InvalidSubnet", <<>>)}
             ELSE LET ip_range == hosts(network)
                  IN  IF ip_range = {} THEN {Outcome("NoUsableHosts", <<>>)}
                      ELSE {Outcome("ok", str_ip(h)) : h \in ip_range}

\* self.history.insert(0, ...) in place of append
history_after_front(h, subnet, o) ==
    IF o.kind = "ok" THEN <<(<<subnet, o.ip>>)>> \o h ELSE h

\* the entry recorded before the checks, whatever the outcome
history_after_eager(h, subnet, o) == Append(h, <<subnet, o.ip>>)

\* self.history after the call: the append of line 65 is reached only by a
\* call that raised nothing
history_after(h, subnet, o) ==
    IF o.kind = "ok" THEN Append(h, <<subnet, o.ip>>) ELSE h

\* self.history.clear()
clear_history(h) == <<>>

\* get_history returns self.history itself, the list object, not a copy
get_history == "self.history"

\* longest history explored
MaxHist == 2

\* effect of one generate_random_ip(subnet) call with outcome o
Generate(subnet, o) ==
    /\ o.kind = "ok" => Len(history) < MaxHist /\ Len(issued) < MaxHist
    /\ arg' = subnet
    /\ res' = o
    /\ history' = history_after(history, subnet, o)
    /\ issued' = IF o.kind = "ok" THEN Append(issued, <<subnet, o.ip>>) ELSE issued

----------------------------------------------------------------------------
(* main *)

S_exit == <<"e", "x", "i", "t">>
S_history == <<"h", "i", "s", "t", "o", "r", "y">>
S_clear == <<"c", "l", "e", "a", "r">>

\* lines the user types (input() has already dropped the line's newline)
ShellLines ==
    { S_exit, <<" ", "E", "X", "I", "T", " ">>,
      S_history, <<"H", "i", "s", "t", "o", "r", "y", "\t">>,
      S_clear, <<"C", "L", "E", "A", "R">>,
      <<>>,
      <<" ", "1", "0", ".", "0", ".", "0", ".", "1", "3", "/", "3", "0", " ">>,
      <<"1", "0", ".", "0", ".", "0", ".", "0", "/", "3", "1">>,
      <<"1", "0", ".", "0", ".", "0", ".", "0", "/", "3", "2">>,
      <<"n", "o", "t", "-", "a", "n", "-", "i", "p">>,
      <<"9", "9", "9", ".", "9", "9", "9", ".", "9", "9", "9", ".", "9", "9", "9", "/", "9", "9">>,
      <<"1", "0", ".", "0", ".", "0", ".", "1", "/", "3", "3">>,
      <<"0", "1", ".", "2", ".", "3", ".", "4", "/", "3", "0">> }

\* input(...).strip().lower()
user_input(line) == lower(strip(line))

\* the values user_input takes on those lines
UserInputs == {user_input(line) : line \in ShellLines}

Printed(msg, subnet, ip) == [msg |-> msg, subnet |-> subnet, ip |-> ip]

\* the loop without its 'except SubnetError' clause: the error ends main
loop_after_uncaught(event) ==
    IF event \in {"exit", "KeyboardInterrupt", "SubnetError"} THEN "exited" ELSE "awaiting"

\* where the loop is after an iteration that ended in the given way: break on
\* 'exit' and in the KeyboardInterrupt handler; continue, or the end of the
\* loop body, everywhere else, the two other except clauses included
loop_after(event) ==
    IF event \in {"exit", "KeyboardInterrupt"} THEN "exited" ELSE "awaiting"

\* the message printed for a SubnetError
error_message(kind) ==
    CASE kind = "InvalidFormat" -> "Error: Invalid subnet format."
      [] kind = "InvalidSubnet" -> "Error: Invalid subnet:"
      [] kind = "NoUsableHosts" -> "Error: No usable hosts in subnet"

\* copy_to_clipboard(text): True with the text on the clipboard, or False when
\* pyperclip.copy raises
copy_to_clipboard(text) ==
    {[copied |-> TRUE, clip |-> text], [copied |-> FALSE, clip |-> clip]}

ShellExit ==
    /\ pc = "awaiting"
    /\ S_exit \in UserInputs
    /\ pc' = loop_after("exit")
    /\ out' = <<Printed("Exiting program. Goodbye!", <<>>, <<>>)>>
    /\ op' = "exit"
    /\ UNCHANGED <<history, arg, res, view, clip, issued>>

ShellHistory ==
    /\ pc = "awaiting"
    /\ S_history \in UserInputs
    /\ view' = get_history
    /\ out' = IF history # <<>>
              THEN <<Printed("Generation History:", <<>>, <<>>)>> \o
                   [i \in 1..Len(history) |->
                       Printed("Subnet: -> IP:", history[i][1], history[i][2])]
              ELSE <<Printed("No generation history available.", <<>>, <<>>)>>
    /\ pc' = loop_after("history")
    /\ op' = "history"
    /\ UNCHANGED <<history, arg, res, clip, issued>>

ShellClear ==
    /\ pc = "awaiting"
    /\ S_clear \in UserInputs
    /\ history' = clear_history(history)
    /\ issued' = <<>>
    /\ out' = <<Printed("History cleared.", <<>>, <<>>)>>
    /\ pc' = loop_after("clear")
    /\ op' = "clear"
    /\ UNCHANGED <<arg, res, view, clip>>

\* any other line: generate_random_ip(user_input), then the clipboard copy, or
\* the SubnetError handler
ShellGenerate ==
    /\ pc = "awaiting"
    /\ \E subnet \in UserInputs \ {S_exit, S_history, S_clear} :
          \E o \in generate_random_ip(subnet) :
             /\ Generate(subnet, o)
             /\ IF o.kind = "ok"
                THEN \E c \in copy_to_clipboard(o.ip) :
                        /\ clip' = c.clip
                        /\ out' = <<Printed("Random IP from", subnet, o.ip),
                                    Printed(IF c.copied
                                            THEN "IP address copied to clipboard."
                                            ELSE "Warning: Could not copy to clipboard.",
                                            <<>>, <<>>)>>
                        /\ pc' = loop_after("ok")
                ELSE /\ clip' = clip
                     /\ out' = <<Printed(error_message(o.kind), <<>>, <<>>)>>
                     /\ pc' = loop_after("SubnetError")
    /\ op' = "generate"
    /\ UNCHANGED view

\* Ctrl-C while input() blocks
ShellInterrupt ==
    /\ pc = "awaiting"
    /\ out' = <<Printed("Program interrupted. Exiting...", <<>>, <<>>)>>
    /\ pc' = loop_after("KeyboardInterrupt")
    /\ op' = "KeyboardInterrupt"
    /\ UNCHANGED <<history, arg, res, view, clip, issued>>

\* input() raises EOFError (standard input closed): the last except clause
ShellEOF ==
    /\ pc = "awaiting"
    /\ out' = <<Printed("Unexpected error:", <<>>, <<>>)>>
    /\ pc' = loop_after("Exception")
    /\ op' = "EOFError"
    /\ UNCHANGED <<history, arg, res, view, clip, issued>>

Init ==
    /\ pc = "awaiting"
    /\ history = <<>>
    /\ op = "init"
    /\ arg = <<>>
    /\ res = Outcome("none", <<>>)
    /\ view = "none"
    /\ out = <<>>
    /\ clip = <<>>
    /\ issued = <<>>

Next ==
    \/ ShellExit
    \/ ShellHistory
    \/ ShellClear
    \/ ShellGenerate
    \/ ShellInterrupt
    \/ ShellEOF

Spec == Init /\ [][Next]_vars

----------------------------------------------------------------------------
(* One call on a fresh IPGenerator, on any string *)

Cidr(a, p) == str_ip(a) \o <<"/">> \o str_int(p)

\* arguments of the call: the blocks 192.168.1.d/p, well-formed and followed
\* by one more character, and strings that are wrong in one respect each
CallInputs ==
    LET cidrs == {Cidr(<<192, 168, 1, d>>, p) :
                     d \in {0, 1, 77, 254, 255}, p \in {24, 29, 30, 31, 32, 33}}
    IN  cidrs
        \cup {c \o <<"\n">> : c \in cidrs}
        \cup {c \o <<" ">> : c \in cidrs}
        \cup {<<" ">> \o c : c \in cidrs}
        \cup { <<>>,
               <<"n", "o", "t", "-", "a", "n", "-", "i", "p">>,
               <<"9", "9", "9", ".", "9", "9", "9", ".", "9", "9", "9", ".", "9", "9", "9", "/", "9", "9">>,
               <<"2", "5", "6", ".", "0", ".", "0", ".", "1", "/", "3", "0">>,
               <<"1", "0", ".", "0", ".", "0", ".", "1", "/", "3", "3">>,
               <<"0", "1", ".", "2", ".", "3", ".", "4", "/", "3", "0">>,
               <<"1", "0", ".", "0", ".", "0", "/", "3", "0">>,
               <<"1", "0", ".", "0", ".", "0", ".", "1", "2", "3", "4", "/", "3", "0">>,
               <<"1", "0", ".", "0", ".", "0", ".", "1", "/", "1", "2", "3">>,
               <<"1", "0", ".", "0", ".", "0", ".", "1">>,
               <<"1", "0", ".", "0", ".", "0", ".", "1", "/">>,
               <<"1", "0", ".", "0", ".", "0", ".", "1", "/", "3", "0", "\n", "\n">>,
               <<"1", "0", ".", "0", ".", "x", ".", "1", "/", "3", "0">> }

InitCall ==
    /\ pc = "imported"
    /\ history = <<>>
    /\ op = "init"
    /\ arg \in CallInputs
    /\ res = Outcome("none", <<>>)
    /\ view = "none"
    /\ out = <<>>
    /\ clip = <<>>
    /\ issued = <<>>

CallGenerate ==
    /\ pc = "imported" /\ op = "init"
    /\ \E o \in generate_random_ip(arg) : Generate(arg, o)
    /\ op' = "generate"
    /\ UNCHANGED <<pc, view, out, clip>>

NextCall == CallGenerate

SpecCall == InitCall /\ [][NextCall]_vars

----------------------------------------------------------------------------
(* A program that imports the module and uses an IPGenerator, keeping the  *)
(* list get_history returned                                               *)

CallerInputs ==
    { <<"1", "0", ".", "0", ".", "0", ".", "1", "3", "/", "3", "0">>,
      <<"1", "0", ".", "0", ".", "0", ".", "0", "/", "3", "2">>,
      <<"n", "o", "t", "-", "a", "n", "-", "i", "p">>,
      <<"1", "0", ".", "0", ".", "0", ".", "1", "/", "3", "3">> }

\* an entry no generate_random_ip call produced
Foreign == <<(<<"x">>), (<<"y">>)>>

InitCaller ==
    /\ pc = "imported"
    /\ history = <<>>
    /\ op = "init"
    /\ arg = <<>>
    /\ res = Outcome("none", <<>>)
    /\ view = "none"
    /\ out = <<>>
    /\ clip = <<>>
    /\ issued = <<>>

CallerGenerate ==
    /\ pc = "imported"
    /\ \E subnet \in CallerInputs :
          \E o \in generate_random_ip(subnet) : Generate(subnet, o)
    /\ op' = "generate"
    /\ UNCHANGED <<pc, view, out, clip>>

CallerGetHistory ==
    /\ pc = "imported"
    /\ view' = get_history
    /\ op' = "get_history"
    /\ UNCHANGED <<pc, history, arg, res, out, clip, issued>>

CallerClearHistory ==
    /\ pc = "imported"
    /\ history' = clear_history(history)
    /\ issued' = <<>>
    /\ op' = "clear"
    /\ UNCHANGED <<pc, arg, res, view, out, clip>>

\* The caller's operations on the list it was given.  The list is the
\* generator's own, so each of them acts on self.history.
ViewAppend ==
    /\ view = "self.history"
    /\ Len(history) < MaxHist
    /\ history' = Append(history, Foreign)
    /\ op' = "view.append"
    /\ UNCHANGED <<pc, arg, res, view, out, clip, issued>>

ViewPop ==
    /\ view = "self.history"
    /\ history # <<>>
    /\ history' = SubSeq(history, 1, Len(history) - 1)
    /\ op' = "view.pop"
    /\ UNCHANGED <<pc, arg, res, view, out, clip, issued>>

ViewClear ==
    /\ view = "self.history"
    /\ history' = <<>>
    /\ op' = "view.clear"
    /\ UNCHANGED <<pc, arg, res, view, out, clip, issued>>

ViewSetItem ==
    /\ view = "self.history"
    /\ \E i \in 1..Len(history) : history' = [history EXCEPT ![i] = Foreign]
    /\ op' = "view.setitem"
    /\ UNCHANGED <<pc, arg, res, view, out, clip, issued>>

NextCaller ==
    \/ CallerGenerate
    \/ CallerGetHistory
    \/ CallerClearHistory
    \/ ViewAppend
    \/ ViewPop
    \/ ViewClear
    \/ ViewSetItem

SpecCaller == InitCaller /\ [][NextCaller]_vars

----------------------------------------------------------------------------
(* The vocabulary of the properties: the lexical shape, a valid CIDR       *)
(* string, and a block's usable hosts, stated on the 32 bits of an address *)

\* four dot-separated groups of 1-3 digits, then "/", then 1-2 digits, and
\* nothing else
Shape(s) ==
    LET parts == split(s, "/")
    IN  /\ Len(parts) = 2
        /\ LET groups == split(parts[1], ".")
           IN  /\ Len(groups) = 4
               /\ \A i \in 1..4 : Len(groups[i]) \in 1..3 /\ isdigit(groups[i])
        /\ Len(parts[2]) \in 1..2
        /\ isdigit(parts[2])

OctetsOf(s) ==
    LET groups == split(split(s, "/")[1], ".")
    IN  <<int(groups[1]), int(groups[2]), int(groups[3]), int(groups[4])>>

PrefixOf(s) == int(split(s, "/")[2])

\* of the shape, each octet a decimal number 0..255 written without leading
\* zeros, the prefix length 0..32
ValidCIDR(s) ==
    /\ Shape(s)
    /\ LET groups == split(split(s, "/")[1], ".")
       IN  \A i \in 1..4 : int(groups[i]) <= 255 /\ groups[i] = str_int(int(groups[i]))
    /\ PrefixOf(s) <= 32

\* some octet above 255 or the prefix length above 32
OutOfRange(s) ==
    \/ \E i \in 1..4 : OctetsOf(s)[i] > 255
    \/ PrefixOf(s) > 32

\* a dotted quad as str(IPv4Address) writes it
IsDottedQuad(t) ==
    LET groups == split(t, ".")
    IN  /\ Len(groups) = 4
        /\ \A i \in 1..4 :
              isdigit(groups[i]) /\ int(groups[i]) <= 255 /\ groups[i] = str_int(int(groups[i]))

QuadOf(t) ==
    LET groups == split(t, ".")
    IN  <<int(groups[1]), int(groups[2]), int(groups[3]), int(groups[4])>>

\* bit j of an address, 1 the most significant and 32 the least
Bit(a, j) == (a[((j - 1) \div 8) + 1] \div Pow2(7 - ((j - 1) % 8))) % 2

\* a is an address of the /p block that holds base
InBlock(a, base, p) == \A j \in 1..p : Bit(a, j) = Bit(base, j)

\* a is a usable host of that block: in it, and neither its network address
\* (host bits all 0) nor its broadcast address (host bits all 1)
UsableHost(a, base, p) ==
    /\ InBlock(a, base, p)
    /\ \E j \in (p + 1)..32 : Bit(a, j) = 1
    /\ \E j \in (p + 1)..32 : Bit(a, j) = 0

\* the block has at least one usable host: 2^(32-p) - 2 >= 1
HasUsableHost(p) == 32 - p >= 2

\* the string names a block by an address with host bits set
HostBitsSet(s) == \E j \in (PrefixOf(s) + 1)..32 : Bit(OctetsOf(s), j) = 1

\* the canonical string of the same block: host bits cleared
Canonical(s) ==
    LET a == OctetsOf(s)
        p == PrefixOf(s)
        z == [i \in 1..4 |-> (a[i] \div Pow2(HostBits(i, p))) * Pow2(HostBits(i, p))]
    IN  Cidr(<<z[1], z[2], z[3], z[4]>>, p)

S_192_168_1_0_24 == Cidr(<<192, 168, 1, 0>>, 24)

----------------------------------------------------------------------------
(* Properties *)

\* C1: for every valid CIDR string whose block has at least one usable host,
\* generate_random_ip returns a dotted quad that is an address of the block
\* and neither its network address nor its broadcast address.
C1_ReturnsUsableHost ==
    (op = "generate" /\ ValidCIDR(arg) /\ HasUsableHost(PrefixOf(arg)))
        => /\ res.kind = "ok"
           /\ IsDottedQuad(res.ip)
           /\ UsableHost(QuadOf(res.ip), OctetsOf(arg), PrefixOf(arg))

\* C1 witness: "192.168.1.0/24" has returned its last usable host 192.168.1.254
C1_Witness ==
    /\ op = "generate"
    /\ arg = S_192_168_1_0_24
    /\ res = Outcome("ok", str_ip(<<192, 168, 1, 254>>))

\* C2: validate_subnet accepts a string exactly when it has the lexical shape,
\* and every string that has not the shape fails with InvalidFormat.
C2_ShapeOrInvalidFormat ==
    op = "generate"
        => /\ validate_subnet(arg) <=> Shape(arg)
           /\ ~Shape(arg) => res.kind = "InvalidFormat"

\* C3: every well-formed subnet string with prefix length 31 or 32 fails with
\* NoUsableHosts.
C3_NoUsableHosts ==
    (op = "generate" /\ ValidCIDR(arg) /\ PrefixOf(arg) \in {31, 32})
        => res.kind = "NoUsableHosts"

\* C4: the history is exactly the successful calls since construction or the
\* last clear, as <<argument, returned address>> in call order; that is what
\* get_history hands to the 'history' command, line by line; it is empty
\* after clear_history.
C4_RoundTrip ==
    /\ history = issued
    /\ op = "clear" => history = <<>>
    /\ (op = "history" /\ issued # <<>>)
          => /\ Len(out) = Len(issued) + 1
             /\ \A i \in 1..Len(issued) :
                   out[i + 1].subnet = issued[i][1] /\ out[i + 1].ip = issued[i][2]
    /\ (op = "history" /\ issued = <<>>) => Len(out) = 1

\* C4 witness: two successful generations with different results, then 'history'
C4_Witness ==
    /\ op = "history"
    /\ Len(history) = 2
    /\ history[1] # history[2]

\* C5: every history entry's address is a usable host of the network parsed
\* from the entry's subnet string.
C5_EntriesUsable ==
    \A i \in 1..Len(history) :
        /\ ValidCIDR(history[i][1])
        /\ IsDottedQuad(history[i][2])
        /\ UsableHost(QuadOf(history[i][2]), OctetsOf(history[i][1]), PrefixOf(history[i][1]))

\* C6: a string of the lexical shape with an octet above 255 or a prefix
\* length above 32 is accepted by validate_subnet and rejected by
\* generate_random_ip with InvalidSubnet.
C6_InvalidSubnet ==
    (op = "generate" /\ Shape(arg) /\ OutOfRange(arg))
        => validate_subnet(arg) /\ res.kind = "InvalidSubnet"

\* C6 witness: "256.0.0.1/30" was rejected with InvalidSubnet
C6_Witness ==
    /\ op = "generate"
    /\ arg = <<"2", "5", "6", ".", "0", ".", "0", ".", "1", "/", "3", "0">>
    /\ res.kind = "InvalidSubnet"

\* C7: a valid string whose address has host bits set is not rejected, the
\* address returned is a usable host of the masked block, and the possible
\* results are those of the block's canonical string.
C7_HostBitsMasked ==
    (op = "generate" /\ ValidCIDR(arg) /\ HostBitsSet(arg))
        => /\ res.kind = "ok"
           /\ IsDottedQuad(res.ip)
           /\ UsableHost(QuadOf(res.ip), OctetsOf(arg), PrefixOf(arg))
           /\ generate_random_ip(arg) = generate_random_ip(Canonical(arg))

\* C8: nothing the caller does to the sequence get_history returned changes
\* the generator's history; it changes only through generate_random_ip and
\* clear_history.
C8_ReadOnlyView ==
    [][history' # history => op' \in {"generate", "clear"}]_vars

\* C9: the loop awaits input or has exited; it exits only on the line 'exit'
\* or on an interrupt; every other iteration, failed ones included, prints
\* something and awaits input again.
C9_LoopOnlyEndsOnExitOrInterrupt ==
    [][pc = "awaiting"
         => /\ pc' \in {"awaiting", "exited"}
            /\ pc' = "exited" <=> op' \in {"exit", "KeyboardInterrupt"}
            /\ op' = "exit" => S_exit \in UserInputs
            /\ out' # <<>>]_vars

\* C9 witness: a line rejected with InvalidSubnet left the loop awaiting input
C9_Witness ==
    /\ op = "generate"
    /\ res.kind = "InvalidSubnet"
    /\ pc = "awaiting"
    /\ Len(out) = 1

\* C10: a failing generate_random_ip call leaves the history as it was; the
\* history grows only by the <<argument, address>> of a call that returned an
\* address.
C10_FailureKeepsHistory ==
    [][/\ (op' = "generate" /\ res'.kind # "ok") => history' = history
       /\ Len(history') > Len(history)
             => /\ op' = "generate"
                /\ res'.kind = "ok"
                /\ history' = Append(history, <<arg', res'.ip>>)]_vars

\* C10 witness: a call failed with InvalidFormat on a non-empty history
C10_Witness ==
    /\ op = "generate"
    /\ res.kind = "InvalidFormat"
    /\ Len(history) = 1

====
